---- MODULE Spec2Model ----
(***************************************************************************)
(* eidos: a configuration-driven transpiler.  A LanguageConfig (statement  *)
(* and block rules, each a literal prefix and a template) drives            *)
(* parse_source, which turns line-oriented source text into a tree of      *)
(* Statement::Simple / Statement::Block nodes, and generate_c_code /       *)
(* generate_python_code, which render the tree through the templates.      *)
(*                                                                         *)
(* Text is a sequence of one-character strings.  A HashMap is a sequence   *)
(* of entries with distinct keys, in the order the map iterates them; the  *)
(* order is arbitrary but fixed for one map.                               *)
(***************************************************************************)
EXTENDS Integers, Sequences, FiniteSets, TLC

VARIABLES
    backend,        \* "c" (src/cargo) or "python" (src/python-based)
    config,         \* LanguageConfig: [statements, blocks]
    source,         \* the source text handed to parse_source
    lines,          \* the trimmed non-empty lines the for loop iterates
    idx,            \* position of the loop in lines (1-based, next line)
    pc,             \* "parsing", "parsed", "generated"
    block_stack,    \* parse_source: Vec<(String, Vec<Statement>)>
    statements,     \* parse_source: the top-level Vec<Statement>
    events,         \* history: which branch of the loop body each line took
    ast,            \* main: the value parse_source returned
    declared_vars,  \* main (C backend): HashSet<String> passed to generate_c_code
    code,           \* main: the text handed to write_to_file
    emitted         \* history: what generate_c_code pushed, in the order of the walk

vars == <<backend, config, source, lines, idx, pc, block_stack, statements,
          events, ast, declared_vars, code, emitted>>

(***************************************************************************)
(* Bounds                                                                  *)
(***************************************************************************)
MaxLines == 4

(***************************************************************************)
(* Text helpers (Rust std::str)                                            *)
(***************************************************************************)
NL == "\n"

IsWhitespace(c) == c \in {" ", "\t", NL}

\* str::starts_with
StartsWith(s, p) == Len(p) <= Len(s) /\ SubSeq(s, 1, Len(p)) = p

RECURSIVE TrimStart(_)
TrimStart(s) ==
    IF s # <<>> /\ IsWhitespace(Head(s)) THEN TrimStart(Tail(s)) ELSE s

RECURSIVE TrimEnd(_)
TrimEnd(s) ==
    IF s # <<>> /\ IsWhitespace(s[Len(s)])
    THEN TrimEnd(SubSeq(s, 1, Len(s) - 1))
    ELSE s

\* str::trim
Trim(s) == TrimEnd(TrimStart(s))

\* length of the leading run of non-whitespace characters of s
RECURSIVE TokenLen(_)
TokenLen(s) ==
    IF s = <<>> \/ IsWhitespace(Head(s)) THEN 0 ELSE 1 + TokenLen(Tail(s))

\* str::split_whitespace, collected
RECURSIVE SplitWhitespace(_)
SplitWhitespace(s) ==
    LET t == TrimStart(s)
        n == TokenLen(t)
    IN IF t = <<>> THEN <<>>
       ELSE <<SubSeq(t, 1, n)>> \o SplitWhitespace(SubSeq(t, n + 1, Len(t)))

\* index of the first newline of s, 0 when there is none
RECURSIVE FirstNewline(_, _)
FirstNewline(s, k) ==
    IF k > Len(s) THEN 0
    ELSE IF s[k] = NL THEN k
    ELSE FirstNewline(s, k + 1)

\* str::lines, collected: split at newlines; a final empty line is not yielded
RECURSIVE Lines(_)
Lines(s) ==
    IF s = <<>> THEN <<>>
    ELSE LET k == FirstNewline(s, 1)
         IN IF k = 0 THEN <<s>>
            ELSE <<SubSeq(s, 1, k - 1)>> \o Lines(SubSeq(s, k + 1, Len(s)))

\* str::replace: every non-overlapping occurrence of from, left to right
RECURSIVE Replace(_, _, _)
Replace(s, from, to) ==
    IF Len(s) < Len(from) \/ from = <<>> THEN s
    ELSE IF StartsWith(s, from)
         THEN to \o Replace(SubSeq(s, Len(from) + 1, Len(s)), from, to)
         ELSE <<Head(s)>> \o Replace(Tail(s), from, to)

\* str::repeat
RECURSIVE Repeat(_, _)
Repeat(s, n) == IF n = 0 THEN <<>> ELSE s \o Repeat(s, n - 1)

Digit(d) == CASE d = 0 -> "0" [] d = 1 -> "1" [] d = 2 -> "2" [] d = 3 -> "3"
              [] d = 4 -> "4" [] d = 5 -> "5" [] d = 6 -> "6" [] d = 7 -> "7"
              [] d = 8 -> "8" [] d = 9 -> "9"

\* Display of a usize
RECURSIVE Decimal(_)
Decimal(n) ==
    IF n < 10 THEN <<Digit(n)>> ELSE Decimal(n \div 10) \o <<Digit(n % 10)>>

\* format!("{{{}}}", i)
Placeholder(i) == <<"{">> \o Decimal(i) \o <<"}">>

\* the iterator source.lines().map(|l| l.trim()).filter(|l| !l.is_empty())
RECURSIVE TrimmedNonEmpty(_)
TrimmedNonEmpty(ls) ==
    IF ls = <<>> THEN <<>>
    ELSE LET l == Trim(Head(ls))
         IN (IF l = <<>> THEN <<>> ELSE <<l>>) \o TrimmedNonEmpty(Tail(ls))

SourceLines(src) == TrimmedNonEmpty(Lines(src))

(***************************************************************************)
(* The AST                                                                 *)
(***************************************************************************)
Simple(name, args) == [type |-> "Simple", name |-> name, args |-> args]
Block(name, inner) == [type |-> "Block", name |-> name, inner |-> inner]

Last(seq) == seq[Len(seq)]

\* HashMap::get on a map held as a sequence of entries
HasKey(map, name) == \E k \in 1..Len(map) : map[k].name = name
Get(map, name) == map[CHOOSE k \in 1..Len(map) : map[k].name = name]

(***************************************************************************)
(* parse_source, C backend (src/cargo/src/main.rs)                         *)
(*                                                                         *)
(* The operators of the loop body return the new block_stack and           *)
(* statements, together with the branch taken and the rule that matched.   *)
(***************************************************************************)
Step(matched, stack, stmts, branch, rule) ==
    [matched |-> matched, block_stack |-> stack, statements |-> stmts,
     branch |-> branch, rule |-> rule]

\* C_Emit with the node put in front of the others instead of behind them
C_Emit_Prepends(stack, stmts, stmt) ==
    IF stack # <<>>
    THEN [block_stack |-> [stack EXCEPT ![Len(stack)] = <<@[1], <<stmt>> \o @[2]>>],
          statements |-> stmts]
    ELSE [block_stack |-> stack, statements |-> <<stmt>> \o stmts]

\* if let Some((_, block)) = block_stack.last_mut() { block.push(stmt) }
\* else { statements.push(stmt) }
C_Emit(stack, stmts, stmt) ==
    IF stack # <<>>
    THEN [block_stack |-> [stack EXCEPT ![Len(stack)] = <<@[1], Append(@[2], stmt)>>],
          statements |-> stmts]
    ELSE [block_stack |-> stack, statements |-> Append(stmts, stmt)]

\* C_EndBlock taking the outermost frame instead of the innermost
C_EndBlock_PopsOutermost(stack, stmts) ==
    IF stack # <<>>
    THEN [block_stack |-> Tail(stack),
          statements |-> Append(stmts, Block(stack[1][1], stack[1][2]))]
    ELSE [block_stack |-> stack, statements |-> stmts]

\* C_EndBlock building the Block without the children of the frame
C_EndBlock_DropsChildren(stack, stmts) ==
    IF Len(stack) > 1
    THEN [block_stack |-> [i \in 1..(Len(stack) - 1) |->
                             IF i = Len(stack) - 1
                             THEN <<stack[i][1], Append(stack[i][2], Block(Last(stack)[1], <<>>))>>
                             ELSE stack[i]],
          statements |-> stmts]
    ELSE [block_stack |-> <<>>,
          statements |-> Append(stmts, Block(stack[1][1], <<>>))]

\* block_stack.pop(), wrapped into Statement::Block and handed to the
\* enclosing frame or to the top level
C_EndBlock(stack, stmts) ==
    LET top == stack[Len(stack)]
        popped == SubSeq(stack, 1, Len(stack) - 1)
    IN C_Emit(popped, stmts, Block(top[1], top[2]))

\* C_BlockLoop without the !block_stack.is_empty() test: an end met with no
\* frame open counts as matched and the line is consumed
RECURSIVE C_BlockLoop_CloseUnguarded(_, _, _, _, _)
C_BlockLoop_CloseUnguarded(line, blocks, k, stack, stmts) ==
    IF k > Len(blocks) THEN [matched |-> FALSE, block_stack |-> stack,
                             statements |-> stmts, branch |-> "none", rule |-> ""]
    ELSE IF StartsWith(line, blocks[k].start)
         THEN [matched |-> TRUE, block_stack |-> Append(stack, <<blocks[k].name, <<>>>>),
               statements |-> stmts, branch |-> "open", rule |-> blocks[k].name]
    ELSE IF StartsWith(line, blocks[k].end)
         THEN IF stack = <<>>
              THEN [matched |-> TRUE, block_stack |-> stack, statements |-> stmts,
                    branch |-> "close", rule |-> blocks[k].name]
              ELSE [matched |-> TRUE,
                    block_stack |-> C_EndBlock(stack, stmts).block_stack,
                    statements |-> C_EndBlock(stack, stmts).statements,
                    branch |-> "close", rule |-> blocks[k].name]
    ELSE C_BlockLoop_CloseUnguarded(line, blocks, k + 1, stack, stmts)

\* for (block_name, block_def) in &config.blocks { ... }, from entry k on
RECURSIVE C_BlockLoop(_, _, _, _, _)
C_BlockLoop(line, blocks, k, stack, stmts) ==
    IF k > Len(blocks) THEN Step(FALSE, stack, stmts, "none", "")
    ELSE IF StartsWith(line, blocks[k].start)
         THEN Step(TRUE, Append(stack, <<blocks[k].name, <<>>>>), stmts,
                   "open", blocks[k].name)
    ELSE IF stack # <<>> /\ StartsWith(line, blocks[k].end)
         THEN LET r == C_EndBlock(stack, stmts)
              IN Step(TRUE, r.block_stack, r.statements, "close", blocks[k].name)
    ELSE C_BlockLoop(line, blocks, k + 1, stack, stmts)

\* C_Args without the slice: the syntax stays in front of the arguments
C_Args_KeepsSyntax(line, syntax) == SplitWhitespace(Trim(line))

\* line[stmt_def.syntax.len()..].trim().split_whitespace().collect()
C_Args(line, syntax) ==
    SplitWhitespace(Trim(SubSeq(line, Len(syntax) + 1, Len(line))))

\* for (stmt_name, stmt_def) in &config.statements { ... }, from entry k on
RECURSIVE C_StatementLoop(_, _, _, _, _)
C_StatementLoop(line, rules, k, stack, stmts) ==
    IF k > Len(rules) THEN Step(FALSE, stack, stmts, "none", "")
    ELSE IF StartsWith(line, rules[k].syntax)
         THEN LET r == C_Emit(stack, stmts,
                              Simple(rules[k].name, C_Args(line, rules[k].syntax)))
              IN Step(TRUE, r.block_stack, r.statements, "statement", rules[k].name)
    ELSE C_StatementLoop(line, rules, k + 1, stack, stmts)

\* C_Default with the line split on whitespace like a statement's arguments
C_Default_Splits(line, stack, stmts) ==
    [matched |-> TRUE,
     block_stack |-> C_Emit(stack, stmts, Simple("print", SplitWhitespace(line))).block_stack,
     statements |-> C_Emit(stack, stmts, Simple("print", SplitWhitespace(line))).statements,
     branch |-> "default", rule |-> "print"]

\* Statement::Simple("print".to_string(), vec![line.to_string()])
C_Default(line, stack, stmts) ==
    LET r == C_Emit(stack, stmts, Simple("print", <<line>>))
    IN Step(TRUE, r.block_stack, r.statements, "default", "print")

\* one iteration of the for loop over the lines
C_ParseLine(line, cfg, stack, stmts) ==
    LET b == C_BlockLoop(line, cfg.blocks, 1, stack, stmts)
        s == C_StatementLoop(line, cfg.statements, 1, stack, stmts)
    IN IF b.matched THEN b
       ELSE IF s.matched THEN s
       ELSE C_Default(line, stack, stmts)

(***************************************************************************)
(* parse_source, Python backend (src/python-based/src/main.rs)             *)
(***************************************************************************)
\* Py_Emit with the node put in front of the others instead of behind them
Py_Emit_Prepends(stack, stmts, stmt) ==
    IF stack # <<>>
    THEN [block_stack |-> [stack EXCEPT ![Len(stack)] = <<@[1], <<stmt>> \o @[2]>>],
          statements |-> stmts]
    ELSE [block_stack |-> stack, statements |-> <<stmt>> \o stmts]

Py_Emit(stack, stmts, stmt) ==
    IF stack # <<>>
    THEN [block_stack |-> [stack EXCEPT ![Len(stack)] = <<@[1], Append(@[2], stmt)>>],
          statements |-> stmts]
    ELSE [block_stack |-> stack, statements |-> Append(stmts, stmt)]

Py_EndBlock(stack, stmts) ==
    LET top == stack[Len(stack)]
        popped == SubSeq(stack, 1, Len(stack) - 1)
    IN Py_Emit(popped, stmts, Block(top[1], top[2]))

RECURSIVE Py_BlockLoop(_, _, _, _, _)
Py_BlockLoop(line, blocks, k, stack, stmts) ==
    IF k > Len(blocks) THEN Step(FALSE, stack, stmts, "none", "")
    ELSE IF StartsWith(line, blocks[k].start)
         THEN Step(TRUE, Append(stack, <<blocks[k].name, <<>>>>), stmts,
                   "open", blocks[k].name)
    ELSE IF stack # <<>> /\ StartsWith(line, blocks[k].end)
         THEN LET r == Py_EndBlock(stack, stmts)
              IN Step(TRUE, r.block_stack, r.statements, "close", blocks[k].name)
    ELSE Py_BlockLoop(line, blocks, k + 1, stack, stmts)

Py_Args(line, syntax) ==
    SplitWhitespace(Trim(SubSeq(line, Len(syntax) + 1, Len(line))))

RECURSIVE Py_StatementLoop(_, _, _, _, _)
Py_StatementLoop(line, rules, k, stack, stmts) ==
    IF k > Len(rules) THEN Step(FALSE, stack, stmts, "none", "")
    ELSE IF StartsWith(line, rules[k].syntax)
         THEN LET r == Py_Emit(stack, stmts,
                               Simple(rules[k].name, Py_Args(line, rules[k].syntax)))
              IN Step(TRUE, r.block_stack, r.statements, "statement", rules[k].name)
    ELSE Py_StatementLoop(line, rules, k + 1, stack, stmts)

Py_Default(line, stack, stmts) ==
    LET r == Py_Emit(stack, stmts, Simple("print", <<line>>))
    IN Step(TRUE, r.block_stack, r.statements, "default", "print")

Py_ParseLine(line, cfg, stack, stmts) ==
    LET b == Py_BlockLoop(line, cfg.blocks, 1, stack, stmts)
        s == Py_StatementLoop(line, cfg.statements, 1, stack, stmts)
    IN IF b.matched THEN b
       ELSE IF s.matched THEN s
       ELSE Py_Default(line, stack, stmts)

\* the loop body of the backend that is running
ParseLineOf(be, line, cfg, stack, stmts) ==
    IF be = "c" THEN C_ParseLine(line, cfg, stack, stmts)
    ELSE Py_ParseLine(line, cfg, stack, stmts)

\* parse_source as a whole: the loop from line k on, and the value returned
RECURSIVE ParseFrom(_, _, _, _, _, _)
ParseFrom(be, ls, k, cfg, stack, stmts) ==
    IF k > Len(ls) THEN stmts
    ELSE LET r == ParseLineOf(be, ls[k], cfg, stack, stmts)
         IN ParseFrom(be, ls, k + 1, cfg, r.block_stack, r.statements)

parse_source(be, src, cfg) == ParseFrom(be, SourceLines(src), 1, cfg, <<>>, <<>>)

(***************************************************************************)
(* generate_c_code (src/cargo/src/main.rs)                                 *)
(***************************************************************************)
\* C_Substitute with the placeholders numbered from one
RECURSIVE C_Substitute_OneBased(_, _, _)
C_Substitute_OneBased(line, args, i) ==
    IF i >= Len(args) THEN line
    ELSE C_Substitute_OneBased(Replace(line, Placeholder(i + 1), args[i + 1]), args, i + 1)

\* for (i, arg) in args.iter().enumerate() { line = line.replace("{i}", arg) },
\* from argument i (0-based) on
RECURSIVE C_Substitute(_, _, _)
C_Substitute(line, args, i) ==
    IF i >= Len(args) THEN line
    ELSE C_Substitute(Replace(line, Placeholder(i), args[i + 1]), args, i + 1)

\* an entry of the history of a render: a declaration line ("declare", text
\* the variable), a statement line ("line", text the line, var its first
\* argument), or the start and the end of the rendering of a block's children
\* ("enter", "leave"); indent is that of the caller's indent_str, declared
\* the set after the entry
Entry(kind, name, var, text, indent_str, declared) ==
    [kind |-> kind, name |-> name, var |-> var, text |-> text,
     indent |-> Len(indent_str) \div 4, declared |-> declared]

\* C_GenSimple without declared_vars.insert: the set stays as it was
C_GenSimple_NoInsert(stmt, cfg, declared, indent_str) ==
    IF HasKey(cfg.statements, stmt.name)
    THEN LET def == Get(cfg.statements, stmt.name)
             line == C_Substitute(def.template, stmt.args, 0)
             declare == /\ stmt.name = "assignment"
                        /\ stmt.args # <<>>
                        /\ stmt.args[1] \notin declared
             decl == IF declare
                     THEN indent_str \o <<"i", "n", "t", " ">> \o stmt.args[1]
                          \o <<";", NL>>
                     ELSE <<>>
             var == IF stmt.args # <<>> THEN stmt.args[1] ELSE <<>>
         IN [code |-> decl \o indent_str \o line \o <<NL>>,
             declared_vars |-> declared,
             trace |-> (IF declare
                        THEN <<Entry("declare", stmt.name, var, var, indent_str, declared)>>
                        ELSE <<>>)
                       \o <<Entry("line", stmt.name, var, line, indent_str, declared)>>]
    ELSE [code |-> <<>>, declared_vars |-> declared, trace |-> <<>>]

\* the Statement::Simple arm: the text pushed to c_code and the declared set
C_GenSimple(stmt, cfg, declared, indent_str) ==
    IF HasKey(cfg.statements, stmt.name)
    THEN LET def == Get(cfg.statements, stmt.name)
             line == C_Substitute(def.template, stmt.args, 0)
             declare == /\ stmt.name = "assignment"
                        /\ stmt.args # <<>>
                        /\ stmt.args[1] \notin declared
             decl == IF declare
                     THEN indent_str \o <<"i", "n", "t", " ">> \o stmt.args[1]
                          \o <<";", NL>>
                     ELSE <<>>
             after == IF declare THEN declared \cup {stmt.args[1]} ELSE declared
             var == IF stmt.args # <<>> THEN stmt.args[1] ELSE <<>>
         IN [code |-> decl \o indent_str \o line \o <<NL>>,
             declared_vars |-> after,
             trace |-> (IF declare
                        THEN <<Entry("declare", stmt.name, var, var, indent_str, after)>>
                        ELSE <<>>)
                       \o <<Entry("line", stmt.name, var, line, indent_str, after)>>]
    ELSE [code |-> <<>>, declared_vars |-> declared, trace |-> <<>>]

\* C_GenBlock with the children's text put after the template instead of in
\* the place of its {body}
C_GenBlock_BodyAfter(stmt, cfg, declared, inner, indent_str) ==
    IF HasKey(cfg.blocks, stmt.name)
    THEN LET def == Get(cfg.blocks, stmt.name)
             block_code == Replace(def.template, <<"{", "b", "o", "d", "y", "}">>, <<>>)
                           \o inner.code
         IN [code |-> indent_str \o block_code \o <<NL>>,
             declared_vars |-> inner.declared_vars,
             trace |-> <<Entry("enter", stmt.name, <<>>, <<>>, indent_str, declared)>>
                       \o inner.trace
                       \o <<Entry("leave", stmt.name, <<>>, <<>>, indent_str,
                                  inner.declared_vars)>>]
    ELSE [code |-> <<>>, declared_vars |-> inner.declared_vars, trace |-> <<>>]

\* the Statement::Block arm, given the declared set at its start and the
\* rendering of the children
C_GenBlock(stmt, cfg, declared, inner, indent_str) ==
    IF HasKey(cfg.blocks, stmt.name)
    THEN LET def == Get(cfg.blocks, stmt.name)
             block_code == Replace(def.template, <<"{", "b", "o", "d", "y", "}">>, inner.code)
         IN [code |-> indent_str \o block_code \o <<NL>>,
             declared_vars |-> inner.declared_vars,
             trace |-> <<Entry("enter", stmt.name, <<>>, <<>>, indent_str, declared)>>
                       \o inner.trace
                       \o <<Entry("leave", stmt.name, <<>>, <<>>, indent_str,
                                  inner.declared_vars)>>]
    ELSE [code |-> <<>>, declared_vars |-> inner.declared_vars, trace |-> <<>>]

RECURSIVE generate_c_code(_, _, _, _)
generate_c_code(stmts, cfg, declared, indent) ==
    IF stmts = <<>> THEN [code |-> <<>>, declared_vars |-> declared, trace |-> <<>>]
    ELSE LET stmt == Head(stmts)
             indent_str == Repeat(<<" ", " ", " ", " ">>, indent)
             one == IF stmt.type = "Simple"
                    THEN C_GenSimple(stmt, cfg, declared, indent_str)
                    ELSE IF HasKey(cfg.blocks, stmt.name)
                         THEN C_GenBlock(stmt, cfg, declared,
                                  generate_c_code(stmt.inner, cfg, declared, indent + 1),
                                  indent_str)
                         ELSE [code |-> <<>>, declared_vars |-> declared, trace |-> <<>>]
             rest == generate_c_code(Tail(stmts), cfg, one.declared_vars, indent)
         IN [code |-> one.code \o rest.code, declared_vars |-> rest.declared_vars,
             trace |-> one.trace \o rest.trace]

(***************************************************************************)
(* generate_python_code (src/python-based/src/main.rs)                     *)
(***************************************************************************)
RECURSIVE Py_Substitute(_, _, _)
Py_Substitute(line, args, i) ==
    IF i >= Len(args) THEN line
    ELSE Py_Substitute(Replace(line, Placeholder(i), args[i + 1]), args, i + 1)

Py_GenSimple(stmt, cfg, indent_str) ==
    IF HasKey(cfg.statements, stmt.name)
    THEN LET def == Get(cfg.statements, stmt.name)
             line == Py_Substitute(def.template, stmt.args, 0)
         IN indent_str \o line \o <<NL>>
    ELSE <<>>

Py_GenBlock(stmt, cfg, inner_code, indent_str) ==
    IF HasKey(cfg.blocks, stmt.name)
    THEN LET def == Get(cfg.blocks, stmt.name)
             block_code == Replace(def.template, <<"{", "b", "o", "d", "y", "}">>, inner_code)
         IN indent_str \o block_code \o <<NL>>
    ELSE <<>>

RECURSIVE generate_python_code(_, _, _)
generate_python_code(stmts, cfg, indent) ==
    IF stmts = <<>> THEN <<>>
    ELSE LET stmt == Head(stmts)
             indent_str == Repeat(<<" ", " ", " ", " ">>, indent)
             one == IF stmt.type = "Simple"
                    THEN Py_GenSimple(stmt, cfg, indent_str)
                    ELSE IF HasKey(cfg.blocks, stmt.name)
                         THEN Py_GenBlock(stmt, cfg,
                                  generate_python_code(stmt.inner, cfg, indent + 1),
                                  indent_str)
                         ELSE <<>>
         IN one \o generate_python_code(Tail(stmts), cfg, indent)

(***************************************************************************)
(* main: the program skeleton around the rendered body                     *)
(***************************************************************************)
C_Prologue ==
    <<"#", "i", "n", "c", "l", "u", "d", "e", " ", "<", "s", "t", "d", "i",
      "o", ".", "h", ">", NL, NL, "i", "n", "t", " ", "m", "a", "i", "n",
      "(", ")", " ", "{", NL>>
C_Epilogue ==
    <<" ", " ", " ", " ", "r", "e", "t", "u", "r", "n", " ", "0", ";", NL,
      "}", NL>>
Py_Prologue ==
    <<"d", "e", "f", " ", "m", "a", "i", "n", "(", ")", ":", NL>>
Py_Epilogue ==
    <<NL, "i", "f", " ", "_", "_", "n", "a", "m", "e", "_", "_", " ", "=",
      "=", " ", "\"", "_", "_", "m", "a", "i", "n", "_", "_", "\"", ":", NL,
      " ", " ", " ", " ", "m", "a", "i", "n", "(", ")", NL>>

(***************************************************************************)
(* Inputs: language definitions and source texts                           *)
(***************************************************************************)
\* block rules: "if" runs from a line "if" to a line "el", "else" from "el"
\* to "fi"; a line "el" is the end of one rule and the start of the other
BlockPool ==
    { [name |-> "if", start |-> <<"i", "f">>, end |-> <<"e", "l">>,
       template |-> <<"i", "f", "{", "{", "b", "o", "d", "y", "}", "}">>],
      [name |-> "else", start |-> <<"e", "l">>, end |-> <<"f", "i">>,
       template |-> <<"{", " ", "{", "b", "o", "d", "y", "}", " ", "}">>] }

\* statement rules: "print" has the empty syntax, a prefix of every line, so
\* it matches the lines "assignment" matches and the lines the blocks match
StatementPool ==
    { [name |-> "print", syntax |-> <<>>,
       template |-> <<"P", "(", "{", "0", "}", ")">>],
      [name |-> "assignment", syntax |-> <<"s", "e", "t">>,
       template |-> <<"{", "0", "}", "=", "{", "1", "}", ";">>] }

SeqsUpTo(S, n) == UNION { [1..k -> S] : k \in 0..n }

\* the iteration orders of the maps whose entries are a subset of S
Orderings(S) ==
    { s \in SeqsUpTo(S, Cardinality(S)) :
        \A i, j \in 1..Len(s) : i # j => s[i] # s[j] }

Configs ==
    { [statements |-> st, blocks |-> bl] :
        st \in Orderings(StatementPool), bl \in Orderings(BlockPool) }

RawLines ==
    { <<"i", "f">>, <<"e", "l">>, <<"f", "i">>,
      <<" ", "s", "e", "t", " ", "x", " ", " ", "1", " ">>,
      <<" ">> }

RECURSIVE JoinLines(_)
JoinLines(ls) ==
    IF ls = <<>> THEN <<>>
    ELSE IF Len(ls) = 1 THEN ls[1]
    ELSE ls[1] \o <<NL>> \o JoinLines(Tail(ls))

Sources == { JoinLines(ls) : ls \in SeqsUpTo(RawLines, MaxLines) }

(***************************************************************************)
(* The program                                                             *)
(***************************************************************************)
Init ==
    /\ backend \in {"c", "python"}
    /\ config \in Configs
    /\ source \in Sources
    /\ lines = SourceLines(source)
    /\ idx = 1
    /\ pc = "parsing"
    /\ block_stack = <<>>
    /\ statements = <<>>
    /\ events = <<>>
    /\ ast = <<>>
    /\ declared_vars = {}
    /\ code = <<>>
    /\ emitted = <<>>

\* one iteration of parse_source's for loop
ParseLine ==
    /\ pc = "parsing"
    /\ idx <= Len(lines)
    /\ LET r == ParseLineOf(backend, lines[idx], config, block_stack, statements)
       IN /\ block_stack' = r.block_stack
          /\ statements' = r.statements
          /\ events' = Append(events, [branch |-> r.branch, rule |-> r.rule,
                                       depth |-> Len(block_stack)])
    /\ idx' = idx + 1
    /\ UNCHANGED <<backend, config, source, lines, pc, ast, declared_vars, code,
                   emitted>>

\* the loop ends and parse_source returns statements
ParseReturn ==
    /\ pc = "parsing"
    /\ idx > Len(lines)
    /\ ast' = statements
    /\ pc' = "parsed"
    /\ UNCHANGED <<backend, config, source, lines, idx, block_stack, statements,
                   events, declared_vars, code, emitted>>

\* main of the C backend, from HashSet::new() to the text written
GenerateC ==
    /\ pc = "parsed"
    /\ backend = "c"
    /\ LET r == generate_c_code(ast, config, {}, 1)
       IN /\ declared_vars' = r.declared_vars
          /\ code' = C_Prologue \o r.code \o C_Epilogue
          /\ emitted' = r.trace
    /\ pc' = "generated"
    /\ UNCHANGED <<backend, config, source, lines, idx, block_stack, statements,
                   events, ast>>

\* main of the Python backend
GeneratePython ==
    /\ pc = "parsed"
    /\ backend = "python"
    /\ code' = Py_Prologue \o generate_python_code(ast, config, 1) \o Py_Epilogue
    /\ pc' = "generated"
    /\ UNCHANGED <<backend, config, source, lines, idx, block_stack, statements,
                   events, ast, declared_vars, emitted>>

Next == ParseLine \/ ParseReturn \/ GenerateC \/ GeneratePython

Spec == Init /\ [][Next]_vars

\* the same program on sources made of statement lines: a statement with no
\* argument, one with two, and two lines the block rules match as well
StatementLines ==
    { <<"s", "e", "t">>,
      <<" ", "s", "e", "t", " ", "x", " ", " ", "1", " ">>,
      <<"i", "f">>, <<"e", "l">> }

StatementSources == { JoinLines(ls) : ls \in SeqsUpTo(StatementLines, MaxLines) }

InitStatements ==
    /\ backend \in {"c", "python"}
    /\ config \in Configs
    /\ source \in StatementSources
    /\ lines = SourceLines(source)
    /\ idx = 1
    /\ pc = "parsing"
    /\ block_stack = <<>>
    /\ statements = <<>>
    /\ events = <<>>
    /\ ast = <<>>
    /\ declared_vars = {}
    /\ code = <<>>
    /\ emitted = <<>>

SpecStatements == InitStatements /\ [][Next]_vars

\* the same program on sources the renderers have work with: assignments to
\* two variables whose arguments are themselves placeholder texts, an
\* assignment with no argument, and the lines that open and close blocks
RenderLines ==
    { <<"i", "f">>, <<"e", "l">>,
      <<"s", "e", "t", " ", "{", "1", "}", " ", "{", "b", "o", "d", "y", "}">>,
      <<"s", "e", "t", " ", "a", " ", "{", "0", "}">>,
      <<"s", "e", "t">> }

RenderSources == { JoinLines(ls) : ls \in SeqsUpTo(RenderLines, MaxLines) }

InitRender ==
    /\ backend \in {"c", "python"}
    /\ config \in Configs
    /\ source \in RenderSources
    /\ lines = SourceLines(source)
    /\ idx = 1
    /\ pc = "parsing"
    /\ block_stack = <<>>
    /\ statements = <<>>
    /\ events = <<>>
    /\ ast = <<>>
    /\ declared_vars = {}
    /\ code = <<>>
    /\ emitted = <<>>

SpecRender == InitRender /\ [][Next]_vars

(***************************************************************************)
(* Vocabulary of the properties                                            *)
(***************************************************************************)
Range(seq) == { seq[i] : i \in 1..Len(seq) }

AnyBlockStart(line, cfg) == \E b \in Range(cfg.blocks) : StartsWith(line, b.start)
AnyBlockEnd(line, cfg) == \E b \in Range(cfg.blocks) : StartsWith(line, b.end)
AnyStatement(line, cfg) == \E r \in Range(cfg.statements) : StartsWith(line, r.syntax)

Returned == pc \in {"parsed", "generated"}

\* every node of the tree names a rule of cfg
RECURSIVE NamesRules(_, _)
NamesRules(nodes, cfg) ==
    \A i \in 1..Len(nodes) :
        IF nodes[i].type = "Simple"
        THEN HasKey(cfg.statements, nodes[i].name)
        ELSE HasKey(cfg.blocks, nodes[i].name) /\ NamesRules(nodes[i].inner, cfg)

\* the same rules, whatever the iteration order of the two maps
SameRules(c1, c2) ==
    /\ Range(c1.blocks) = Range(c2.blocks)
    /\ Range(c1.statements) = Range(c2.statements)

(***************************************************************************)
(* C1: when parse_source reaches the end of the input with a non-empty     *)
(* block stack it reports an error instead of returning a tree: a tree is  *)
(* returned only when every frame has been closed.                         *)
(***************************************************************************)
C1_UnclosedBlockIsAnError == Returned => block_stack = <<>>

(***************************************************************************)
(* C2: every node of the tree parse_source returns names a rule of the     *)
(* LanguageConfig it was parsed with.                                      *)
(***************************************************************************)
C2_TreeNamesOnlyRules == pc = "parsed" => NamesRules(ast, config)

(***************************************************************************)
(* C3: the renderer fails on a node whose rule is absent; it never hands   *)
(* back text for a tree holding such a node.                               *)
(***************************************************************************)
C3_UnknownRuleFailsRender ==
    pc = "generated" => \A i \in 1..Len(ast) : NamesRules(<<ast[i]>>, config)

(***************************************************************************)
(* C4: open-block has precedence over close-block: a line that has any     *)
(* block rule's start as a prefix pushes a frame, also when a block is     *)
(* open and another rule's end is a prefix of the line.                    *)
(***************************************************************************)
C4_OpenBeforeClose ==
    \A k \in 1..Len(events) :
        AnyBlockStart(lines[k], config) =>
            /\ events[k].branch = "open"
            /\ \E b \in Range(config.blocks) :
                  b.name = events[k].rule /\ StartsWith(lines[k], b.start)

(***************************************************************************)
(* C5: classification is deterministic: the tree returned for a source and *)
(* a set of rules is the same whatever order the maps are iterated in.     *)
(***************************************************************************)
C5_OrderIndependent ==
    pc = "parsed" =>
        \A other \in Configs :
            SameRules(other, config) => parse_source(backend, source, other) = ast

\* the loop of parse_source is about to process the line lines[idx]
AtLine == pc = "parsing" /\ idx <= Len(lines)

\* the node appended last: to the innermost open frame, else to the top level
LastEmitted(stack, stmts) ==
    IF stack # <<>> THEN Last(Last(stack)[2]) ELSE Last(stmts)

RECURSIVE NodeCount(_)
NodeCount(nodes) ==
    IF nodes = <<>> THEN 0
    ELSE 1 + (IF Head(nodes).type = "Block" THEN NodeCount(Head(nodes).inner) ELSE 0)
           + NodeCount(Tail(nodes))

RECURSIVE BlockCount(_)
BlockCount(nodes) ==
    IF nodes = <<>> THEN 0
    ELSE (IF Head(nodes).type = "Block" THEN 1 + BlockCount(Head(nodes).inner) ELSE 0)
         + BlockCount(Tail(nodes))

Max(a, b) == IF a >= b THEN a ELSE b

\* nesting depth of a sequence of nodes: 0 without blocks
RECURSIVE TreeDepth(_)
TreeDepth(nodes) ==
    IF nodes = <<>> THEN 0
    ELSE Max(IF Head(nodes).type = "Block" THEN 1 + TreeDepth(Head(nodes).inner) ELSE 0,
             TreeDepth(Tail(nodes)))

\* Simple nodes held by the parser: in the top-level sequence and in the frames
RECURSIVE SimpleInStack(_)
SimpleInStack(stack) ==
    IF stack = <<>> THEN 0
    ELSE NodeCount(Head(stack)[2]) - BlockCount(Head(stack)[2]) + SimpleInStack(Tail(stack))

SimpleHeld(stack, stmts) == NodeCount(stmts) - BlockCount(stmts) + SimpleInStack(stack)

CountBranch(b) == Cardinality({ k \in 1..Len(events) : events[k].branch = b })

\* the largest number of frames open at once
RECURSIVE MaxOpen(_)
MaxOpen(k) ==
    IF k = 0 THEN 0
    ELSE Max(IF events[k].branch = "open" THEN events[k].depth + 1 ELSE 0, MaxOpen(k - 1))

\* raw lines of the source that hold a character other than whitespace
NonBlankLines(src) ==
    LET raw == Lines(src)
    IN Cardinality({ i \in 1..Len(raw) :
                       \E j \in 1..Len(raw[i]) : ~IsWhitespace(raw[i][j]) })

(***************************************************************************)
(* C6: while a block is open, a line with some block rule's end as a       *)
(* prefix and no block start as a prefix pops exactly the top frame,       *)
(* whichever rule opened it; the Block carries the name the frame was      *)
(* opened with and the children gathered in it, and goes to the new top    *)
(* frame or, with no frame left, to the top level.                         *)
(***************************************************************************)
C6_EndClosesInnermost ==
    [][ ( /\ AtLine
          /\ block_stack # <<>>
          /\ AnyBlockEnd(lines[idx], config)
          /\ ~AnyBlockStart(lines[idx], config) )
        => LET n == Len(block_stack)
               node == Block(block_stack[n][1], block_stack[n][2])
           IN /\ Len(block_stack') = n - 1
              /\ \A i \in 1..(n - 2) : block_stack'[i] = block_stack[i]
              /\ IF n > 1
                 THEN /\ block_stack'[n - 1] =
                            <<block_stack[n - 1][1], Append(block_stack[n - 1][2], node)>>
                      /\ statements' = statements
                 ELSE statements' = Append(statements, node) ]_vars

\* a frame opened by "if" inside another, holding a child, was closed by a
\* line that is the end of rule "else"
C6_Witness ==
    /\ events # <<>>
    /\ Last(events) = [branch |-> "close", rule |-> "else", depth |-> 2]
    /\ Len(block_stack) = 1
    /\ Len(block_stack[1][2]) = 1
    /\ block_stack[1][2][1].type = "Block"
    /\ block_stack[1][2][1].name = "if"
    /\ block_stack[1][2][1].inner # <<>>

(***************************************************************************)
(* C7: a close is never taken with an empty stack; a line matching only a  *)
(* block end while no block is open is classified by the statement rules   *)
(* or, failing that, as the default statement, and is appended to the      *)
(* top-level sequence.                                                     *)
(***************************************************************************)
C7_NoCloseOnEmptyStack ==
    [][ AtLine =>
          LET line == lines[idx]
              e == Last(events')
          IN /\ e.branch = "close" => block_stack # <<>>
             /\ ( /\ block_stack = <<>>
                  /\ AnyBlockEnd(line, config)
                  /\ ~AnyBlockStart(line, config) )
                => /\ block_stack' = <<>>
                   /\ Len(statements') = Len(statements) + 1
                   /\ SubSeq(statements', 1, Len(statements)) = statements
                   /\ Last(statements').type = "Simple"
                   /\ IF AnyStatement(line, config)
                      THEN /\ e.branch = "statement"
                           /\ \E r \in Range(config.statements) :
                                 /\ r.name = Last(statements').name
                                 /\ StartsWith(line, r.syntax)
                      ELSE /\ e.branch = "default"
                           /\ Last(statements') = Simple("print", <<line>>) ]_vars

\* the first line is a block end only, met with no block open, and became
\* the default statement at the top level
C7_Witness ==
    /\ events # <<>>
    /\ events[1].branch = "default"
    /\ AnyBlockEnd(lines[1], config)
    /\ ~AnyBlockStart(lines[1], config)
    /\ statements # <<>>
    /\ statements[1] = Simple("print", <<lines[1]>>)

(***************************************************************************)
(* C8: when the opens and closes are balanced (no frame left at the end),  *)
(* the returned tree has as many nodes as non-blank lines, minus the open  *)
(* and close lines, plus the blocks; every open line has its block; and    *)
(* the nesting depth is the largest number of frames open at once.         *)
(***************************************************************************)
C8_BalancedCounts ==
    (pc = "parsed" /\ block_stack = <<>>) =>
        /\ NodeCount(ast) = NonBlankLines(source)
                             - (CountBranch("open") + CountBranch("close"))
                             + BlockCount(ast)
        /\ BlockCount(ast) = CountBranch("open")
        /\ TreeDepth(ast) = MaxOpen(Len(events))

\* a balanced source with a block inside a block
C8_Witness ==
    /\ pc = "parsed"
    /\ block_stack = <<>>
    /\ TreeDepth(ast) = 2
    /\ MaxOpen(Len(events)) = 2

\* the tree read in source order: a Simple node is one entry, a Block is an
\* open mark, its children and a close mark
RECURSIVE Flatten(_)
Flatten(nodes) ==
    IF nodes = <<>> THEN <<>>
    ELSE (IF Head(nodes).type = "Simple"
          THEN <<[mark |-> "node", name |-> Head(nodes).name, args |-> Head(nodes).args]>>
          ELSE <<[mark |-> "open", name |-> Head(nodes).name, args |-> <<>>]>>
               \o Flatten(Head(nodes).inner)
               \o <<[mark |-> "close", name |-> "", args |-> <<>>]>>)
         \o Flatten(Tail(nodes))

\* the open frames, outermost first: each an open mark and its children so far
RECURSIVE FlattenStack(_)
FlattenStack(stack) ==
    IF stack = <<>> THEN <<>>
    ELSE <<[mark |-> "open", name |-> Head(stack)[1], args |-> <<>>]>>
         \o Flatten(Head(stack)[2])
         \o FlattenStack(Tail(stack))

\* what line k contributed, by the branch it took
LineMark(k) ==
    CASE events[k].branch = "open" ->
            [mark |-> "open", name |-> events[k].rule, args |-> <<>>]
      [] events[k].branch = "close" ->
            [mark |-> "close", name |-> "", args |-> <<>>]
      [] events[k].branch = "statement" ->
            [mark |-> "node", name |-> events[k].rule,
             args |-> SplitWhitespace(
                        SubSeq(lines[k],
                               Len(Get(config.statements, events[k].rule).syntax) + 1,
                               Len(lines[k])))]
      [] OTHER ->
            [mark |-> "node", name |-> "print", args |-> <<lines[k]>>]

(***************************************************************************)
(* C9: placement and order.  Statements go to the innermost open frame,    *)
(* else to the top level; a closed block goes to the new top frame, else   *)
(* to the top level.  So at every point of the parse the top-level         *)
(* sequence followed by the open frames, read depth-first, lists the lines *)
(* processed so far in source order, each block's children lying between   *)
(* its open line and its close line.                                       *)
(***************************************************************************)
C9_SourceOrder ==
    /\ Len(events) = idx - 1
    /\ Flatten(statements) \o FlattenStack(block_stack)
         = [k \in 1..Len(events) |-> LineMark(k)]

\* a statement, then a block holding a statement, at the top level
C9_Witness ==
    /\ pc = "parsed"
    /\ Len(ast) = 2
    /\ ast[1].type = "Simple"
    /\ ast[2].type = "Block"
    /\ ast[2].inner # <<>>

\* text with the whitespace characters taken out
RECURSIVE Squeeze(_)
Squeeze(s) ==
    IF s = <<>> THEN <<>>
    ELSE (IF IsWhitespace(Head(s)) THEN <<>> ELSE <<Head(s)>>) \o Squeeze(Tail(s))

RECURSIVE Concat(_)
Concat(ss) == IF ss = <<>> THEN <<>> ELSE Head(ss) \o Concat(Tail(ss))

\* args are the maximal whitespace-free runs of text, in order
IsSplitOf(args, text) ==
    /\ \A i \in 1..Len(args) :
          args[i] # <<>> /\ \A j \in 1..Len(args[i]) : ~IsWhitespace(args[i][j])
    /\ Concat(args) = Squeeze(text)
    /\ Len(args) = Cardinality({ j \in 1..Len(text) :
                                   /\ ~IsWhitespace(text[j])
                                   /\ (j = 1 \/ IsWhitespace(text[j - 1])) })

(***************************************************************************)
(* C10: a line that neither opens nor closes a block and has a statement   *)
(* rule's syntax as a prefix yields a Simple node named after a rule whose *)
(* syntax is a prefix of the line, its arguments the rest of the line      *)
(* split on whitespace (none when the rest is empty); a line with a block  *)
(* start as a prefix never yields a Simple node.                           *)
(***************************************************************************)
C10_StatementArguments ==
    [][ AtLine =>
          LET line == lines[idx]
              e == Last(events')
          IN /\ AnyBlockStart(line, config) =>
                   /\ e.branch \in {"open", "close"}
                   /\ SimpleHeld(block_stack', statements')
                        = SimpleHeld(block_stack, statements)
             /\ (e.branch \notin {"open", "close"} /\ AnyStatement(line, config)) =>
                   /\ e.branch = "statement"
                   /\ SimpleHeld(block_stack', statements')
                        = SimpleHeld(block_stack, statements) + 1
                   /\ Len(block_stack') = Len(block_stack)
                   /\ LET n == LastEmitted(block_stack', statements')
                      IN /\ n.type = "Simple"
                         /\ n.name = e.rule
                         /\ \E r \in Range(config.statements) :
                               /\ r.name = n.name
                               /\ StartsWith(line, r.syntax)
                               /\ IsSplitOf(n.args,
                                            SubSeq(line, Len(r.syntax) + 1, Len(line))) ]_vars

\* "set x  1" became assignment(x, 1), "set" became assignment() and a line
\* "if", which "print" matches too, opened a block
C10_Witness ==
    /\ Len(statements) = 2
    /\ statements[1] = Simple("assignment", << <<"x">>, <<"1">> >>)
    /\ statements[2] = Simple("assignment", <<>>)
    /\ HasKey(config.statements, "print")
    /\ Len(block_stack) = 1

(***************************************************************************)
(* C11: a trimmed non-empty line that matches no block start, no block end *)
(* while a block is open, and no statement syntax yields exactly one       *)
(* Simple node named "print" whose single argument is the whole trimmed    *)
(* line, unsplit, placed like any other statement; blank and               *)
(* whitespace-only lines yield no node: the loop sees exactly the          *)
(* non-blank lines of the source.                                          *)
(***************************************************************************)
C11_DefaultStatement ==
    [][ AtLine =>
          LET line == lines[idx]
              e == Last(events')
          IN /\ Len(lines) = NonBlankLines(source)
             /\ line # <<>>
             /\ ~IsWhitespace(line[1]) /\ ~IsWhitespace(Last(line))
             /\ ( /\ ~AnyBlockStart(line, config)
                  /\ ~(block_stack # <<>> /\ AnyBlockEnd(line, config))
                  /\ ~AnyStatement(line, config) )
                => /\ e.branch = "default"
                   /\ SimpleHeld(block_stack', statements')
                        = SimpleHeld(block_stack, statements) + 1
                   /\ LastEmitted(block_stack', statements') = Simple("print", <<line>>)
                   /\ IF block_stack = <<>>
                      THEN /\ block_stack' = <<>>
                           /\ statements' = Append(statements, Simple("print", <<line>>))
                      ELSE /\ statements' = statements
                           /\ Len(block_stack') = Len(block_stack)
                           /\ \A i \in 1..(Len(block_stack) - 1) :
                                 block_stack'[i] = block_stack[i]
                           /\ Last(block_stack') =
                                <<Last(block_stack)[1],
                                  Append(Last(block_stack)[2], Simple("print", <<line>>))>> ]_vars

\* a source with a whitespace-only line, whose line "set x  1" met no rule
\* inside an open block and became print("set x  1") there
C11_Witness ==
    /\ Len(Lines(source)) > Len(lines)
    /\ events # <<>>
    /\ Last(events).branch = "default"
    /\ Len(block_stack) = 1
    /\ block_stack[1][2] =
         <<Simple("print", <<<<"s", "e", "t", " ", "x", " ", " ", "1">>>>)>>

(***************************************************************************)
(* Vocabulary of the rendering properties                                  *)
(***************************************************************************)
\* every node of a tree with the depth it is rendered at
RECURSIVE NodesAt(_, _)
NodesAt(nodes, d) ==
    UNION { {[node |-> nodes[k], depth |-> d]}
            \cup (IF nodes[k].type = "Block" THEN NodesAt(nodes[k].inner, d + 1) ELSE {})
            : k \in 1..Len(nodes) }

Spaces(n) == [i \in 1..n |-> " "]

\* where pat first occurs in t, 0 when it does not
FirstAt(t, pat) ==
    LET at == { p \in 1..(Len(t) - Len(pat) + 1) : SubSeq(t, p, p + Len(pat) - 1) = pat }
    IN IF at = {} THEN 0 ELSE CHOOSE p \in at : \A q \in at : p <= q

\* t with the occurrences of pat, found from the left, replaced by text
RECURSIVE ReplacedAll(_, _, _)
ReplacedAll(t, pat, text) ==
    LET p == FirstAt(t, pat)
    IN IF p = 0 THEN t
       ELSE SubSeq(t, 1, p - 1) \o text
            \o ReplacedAll(SubSeq(t, p + Len(pat), Len(t)), pat, text)

\* the placeholders of args[i+1..] replaced one argument after another, each
\* in the text the earlier replacements left
RECURSIVE OneAfterAnother(_, _, _)
OneAfterAnother(t, args, i) ==
    IF i >= Len(args) THEN t
    ELSE OneAfterAnother(ReplacedAll(t, <<"{">> \o Decimal(i) \o <<"}">>, args[i + 1]),
                         args, i + 1)

\* the placeholders {0}..{n-1} of the original template replaced at once:
\* inserted text is not looked at again
RECURSIVE AllAtOnce(_, _)
AllAtOnce(t, args) ==
    IF t = <<>> THEN <<>>
    ELSE LET hit == { i \in 0..(Len(args) - 1) :
                        FirstAt(t, <<"{">> \o Decimal(i) \o <<"}">>) = 1 }
         IN IF hit = {} THEN <<Head(t)>> \o AllAtOnce(Tail(t), args)
            ELSE LET i == CHOOSE i \in hit : TRUE
                 IN args[i + 1]
                    \o AllAtOnce(SubSeq(t, Len(Decimal(i)) + 3, Len(t)), args)

\* the rendering of the one node by the backend be
RenderOne(be, node, cfg, declared, d) ==
    IF be = "c" THEN generate_c_code(<<node>>, cfg, declared, d).code
    ELSE generate_python_code(<<node>>, cfg, d)

\* the C backend declares the first argument of this node before its line
Declares(be, node, declared) ==
    /\ be = "c"
    /\ node.name = "assignment"
    /\ node.args # <<>>
    /\ node.args[1] \notin declared

\* the text a Simple node is to render as
ExpectedSimple(be, node, cfg, declared, d) ==
    IF ~HasKey(cfg.statements, node.name) THEN <<>>
    ELSE (IF Declares(be, node, declared)
          THEN Spaces(4 * d) \o <<"i", "n", "t", " ">> \o node.args[1] \o <<";", NL>>
          ELSE <<>>)
         \o Spaces(4 * d)
         \o OneAfterAnother(Get(cfg.statements, node.name).template, node.args, 0)
         \o <<NL>>

\* the text a sequence of Simple nodes is to render as
RECURSIVE ExpectedSimples(_, _, _, _, _)
ExpectedSimples(be, nodes, cfg, declared, d) ==
    IF nodes = <<>> THEN <<>>
    ELSE ExpectedSimple(be, Head(nodes), cfg, declared, d)
         \o ExpectedSimples(be, Tail(nodes), cfg,
                IF HasKey(cfg.statements, Head(nodes).name)
                   /\ Declares(be, Head(nodes), declared)
                THEN declared \cup {Head(nodes).args[1]} ELSE declared,
                d)

\* the first arguments of the assignments of a tree
AssignedIn(nodes) ==
    { e.node.args[1] : e \in { f \in NodesAt(nodes, 1) :
                                 /\ f.node.type = "Simple"
                                 /\ f.node.name = "assignment"
                                 /\ f.node.args # <<>> } }

Prologue(be) == IF be = "c" THEN C_Prologue ELSE Py_Prologue
Epilogue(be) == IF be = "c" THEN C_Epilogue ELSE Py_Epilogue

DeclaredAfter(be, node, cfg, declared, d) ==
    IF be = "c" THEN generate_c_code(<<node>>, cfg, declared, d).declared_vars
    ELSE declared

\* the renderings of the nodes one by one, in order, put together
RECURSIVE ChildrenText(_, _, _, _, _)
ChildrenText(be, nodes, cfg, declared, d) ==
    IF nodes = <<>> THEN <<>>
    ELSE RenderOne(be, Head(nodes), cfg, declared, d)
         \o ChildrenText(be, Tail(nodes), cfg,
                         DeclaredAfter(be, Head(nodes), cfg, declared, d), d)

Body == <<"{", "b", "o", "d", "y", "}">>

\* the template t, which has one {body}, with text in its place
Spliced(t, text) ==
    LET p == FirstAt(t, Body)
    IN SubSeq(t, 1, p - 1) \o text \o SubSeq(t, p + Len(Body), Len(t))

OneBody(t) ==
    Cardinality({ p \in 1..(Len(t) - Len(Body) + 1) :
                    SubSeq(t, p, p + Len(Body) - 1) = Body }) = 1

(***************************************************************************)
(* C13: every Block node of the tree renders, at its depth d, as 4*d       *)
(* spaces, the template of its rule with {body} replaced by the renderings *)
(* of its children at depth d+1 in child order, and a newline; with no     *)
(* children the template "{ {body} }" renders as "{  }".  A tree that is   *)
(* one Block is written as the prologue, this text and the epilogue.       *)
(***************************************************************************)
C13_BlockRendering ==
    pc = "generated" =>
      /\ \A e \in NodesAt(ast, 1) : \A declared \in SUBSET AssignedIn(ast) :
            e.node.type = "Block" /\ HasKey(config.blocks, e.node.name) =>
               LET t == Get(config.blocks, e.node.name).template
                   out == RenderOne(backend, e.node, config, declared, e.depth)
               IN /\ OneBody(t)
                  /\ out = Spaces(4 * e.depth)
                           \o Spliced(t, ChildrenText(backend, e.node.inner, config,
                                                      declared, e.depth + 1))
                           \o <<NL>>
                  /\ e.node.inner = <<>> /\ t = <<"{", " ">> \o Body \o <<" ", "}">>
                       => out = Spaces(4 * e.depth) \o <<"{", " ", " ", "}", NL>>
      /\ Len(ast) = 1 /\ ast[1].type = "Block" =>
            code = Prologue(backend)
                   \o Spaces(4)
                   \o Spliced(Get(config.blocks, ast[1].name).template,
                              ChildrenText(backend, ast[1].inner, config, {}, 2))
                   \o <<NL>>
                   \o Epilogue(backend)

\* the C backend has rendered a block with two children, an assignment
\* declared at depth 2 and an assignment with no argument
C13_Witness ==
    /\ pc = "generated"
    /\ backend = "c"
    /\ ast = <<Block("if",
                 <<Simple("assignment", << <<"a">>, <<"{", "0", "}">> >>),
                   Simple("assignment", <<>>)>>)>>
    /\ HasKey(config.statements, "assignment")
    /\ code = C_Prologue
              \o Spaces(4) \o <<"i", "f", "{">>
              \o Spaces(8) \o <<"i", "n", "t", " ", "a", ";", NL>>
              \o Spaces(8) \o <<"a", "=", "{", "0", "}", ";", NL>>
              \o Spaces(8) \o <<"{", "0", "}", "=", "{", "1", "}", ";", NL>>
              \o <<"}", NL>>
              \o C_Epilogue

\* the block with the template "{ {body} }" and no children was written as
\* "{  }"
C13_WitnessEmpty ==
    /\ pc = "generated"
    /\ ast = <<Block("else", <<>>)>>
    /\ code = Prologue(backend) \o Spaces(4) \o <<"{", " ", " ", "}", NL>>
              \o Epilogue(backend)

(***************************************************************************)
(* C14: rendering the tree once more gives the text already written: by    *)
(* generate_python_code, by generate_c_code with a new declared set, and   *)
(* by generate_c_code with the set the first call was given, as that call  *)
(* left it.                                                                *)
(***************************************************************************)
C14_RenderTwice ==
    pc = "generated" =>
      IF backend = "python"
      THEN code = Py_Prologue \o generate_python_code(ast, config, 1) \o Py_Epilogue
      ELSE /\ code = C_Prologue \o generate_c_code(ast, config, {}, 1).code \o C_Epilogue
           /\ code = C_Prologue
                     \o generate_c_code(ast, config, declared_vars, 1).code
                     \o C_Epilogue

\* the first arguments of the assignments a render of the tree reaches, in
\* tree-walk order
RECURSIVE AssignmentsOf(_, _)
AssignmentsOf(nodes, cfg) ==
    IF nodes = <<>> THEN <<>>
    ELSE LET n == Head(nodes)
         IN (IF n.type = "Block"
             THEN (IF HasKey(cfg.blocks, n.name) THEN AssignmentsOf(n.inner, cfg) ELSE <<>>)
             ELSE IF n.name = "assignment" /\ n.args # <<>>
                     /\ HasKey(cfg.statements, "assignment")
                  THEN <<n.args[1]>> ELSE <<>>)
            \o AssignmentsOf(Tail(nodes), cfg)

\* the first arguments of the assignment lines of a history, in order
RECURSIVE AssignmentLines(_)
AssignmentLines(trace) ==
    IF trace = <<>> THEN <<>>
    ELSE (IF Head(trace).kind = "line" /\ Head(trace).name = "assignment"
             /\ Head(trace).var # <<>>
          THEN <<Head(trace).var>> ELSE <<>>)
         \o AssignmentLines(Tail(trace))

\* where pat occurs in t
OccursAt(t, pat) ==
    { p \in 1..(Len(t) - Len(pat) + 1) : SubSeq(t, p, p + Len(pat) - 1) = pat }

IntLine(v) == <<"i", "n", "t", " ">> \o v \o <<";", NL>>

(***************************************************************************)
(* C15: in the run of generate_c_code that main starts with an empty       *)
(* declared set, "int v;" is written once for every v that is the first    *)
(* argument of a rendered assignment and for no other v; it comes          *)
(* immediately before the first such assignment of the tree walk, at that  *)
(* assignment's indentation; and the declared set only grows, from the     *)
(* empty set to the set the run ends with.                                 *)
(***************************************************************************)
C15_DeclaredOnce ==
    pc = "generated" /\ backend = "c" =>
      LET assigned == AssignmentsOf(ast, config)
          declares == { p \in 1..Len(emitted) : emitted[p].kind = "declare" }
      IN /\ AssignmentLines(emitted) = assigned
         /\ \A p \in declares : emitted[p].var \in Range(assigned)
         /\ \A v \in Range(assigned) :
               /\ Cardinality({ p \in declares : emitted[p].var = v }) = 1
               /\ Cardinality(OccursAt(code, IntLine(v))) = 1
         /\ \A p \in declares :
               /\ p < Len(emitted)
               /\ emitted[p + 1].kind = "line"
               /\ emitted[p + 1].name = "assignment"
               /\ emitted[p + 1].var = emitted[p].var
               /\ emitted[p + 1].indent = emitted[p].indent
               /\ \A q \in 1..(p - 1) :
                     ~(emitted[q].kind = "line" /\ emitted[q].name = "assignment"
                       /\ emitted[q].var = emitted[p].var)
               /\ OccursAt(code, Spaces(4 * emitted[p].indent) \o IntLine(emitted[p].var)
                                 \o Spaces(4 * emitted[p].indent) \o emitted[p + 1].text
                                 \o <<NL>>) # {}
         /\ \A p \in 1..Len(emitted) :
               /\ (IF p = 1 THEN {} ELSE emitted[p - 1].declared) \subseteq emitted[p].declared
               /\ emitted[p].declared \subseteq declared_vars
         /\ declared_vars = Range(assigned)
         /\ Cardinality(OccursAt(code, <<"i", "n", "t", " ">>))
              = Cardinality(Range(assigned)) + 1

\* the run rendered "set a {0} / set {1} {body} / set a {0}": two variables
\* declared, the second assignment to a not declared again
C15_Witness ==
    /\ pc = "generated"
    /\ backend = "c"
    /\ Len(emitted) = 5
    /\ emitted[1].kind = "declare" /\ emitted[1].var = <<"a">>
    /\ emitted[3].kind = "declare" /\ emitted[3].var = <<"{", "1", "}">>
    /\ emitted[5].kind = "line" /\ emitted[5].var = <<"a">>
    /\ declared_vars = {<<"a">>, <<"{", "1", "}">>}

\* the stack and the top-level sequence of the backend be after each of the
\* lines k, k+1, ... in turn
RECURSIVE StackStates(_, _, _, _, _, _)
StackStates(be, ls, k, cfg, stack, stmts) ==
    IF k > Len(ls) THEN <<>>
    ELSE LET r == ParseLineOf(be, ls[k], cfg, stack, stmts)
         IN <<[block_stack |-> r.block_stack, statements |-> r.statements]>>
            \o StackStates(be, ls, k + 1, cfg, r.block_stack, r.statements)

(***************************************************************************)
(* C16: on the source and the definition of every run, the parse_source of *)
(* the C backend and that of the Python backend take the same step from    *)
(* every state the running one is in, are in the same stack state after    *)
(* every line, and return the same tree, the one returned; and             *)
(* when the tree has no assignment with arguments, generate_c_code and     *)
(* generate_python_code give the same text, the one written between the    *)
(* prologue and the epilogue.                                              *)
(***************************************************************************)
C16_SameCore ==
    /\ AtLine =>
          C_ParseLine(lines[idx], config, block_stack, statements)
            = Py_ParseLine(lines[idx], config, block_stack, statements)
    /\ pc = "parsed" =>
          /\ StackStates("c", SourceLines(source), 1, config, <<>>, <<>>)
               = StackStates("python", SourceLines(source), 1, config, <<>>, <<>>)
          /\ parse_source("python", source, config) = ast
          /\ parse_source("c", source, config) = ast
    /\ pc = "generated" /\ AssignedIn(ast) = {} =>
          /\ generate_c_code(ast, config, {}, 1).code = generate_python_code(ast, config, 1)
          /\ code = Prologue(backend) \o generate_python_code(ast, config, 1)
                    \o Epilogue(backend)

\* a tree of a block, an assignment with no argument in it and a print after
\* it, rendered by the Python backend
C16_Witness ==
    /\ pc = "generated"
    /\ backend = "python"
    /\ Len(ast) = 2
    /\ ast[1] = Block("if", <<Simple("assignment", <<>>)>>)
    /\ ast[2] = Simple("print", << <<"e", "l">> >>)
    /\ HasKey(config.statements, "print")
    /\ HasKey(config.statements, "assignment")
    /\ code = Py_Prologue \o generate_c_code(ast, config, {}, 1).code \o Py_Epilogue

(***************************************************************************)
(* C17: in the run of generate_c_code, every assignment to v is rendered   *)
(* in the block body where "int v;" was written or in a block body inside  *)
(* it: between the declaration and the assignment the render does not      *)
(* leave the block body of the declaration.                                *)
(***************************************************************************)
C17_DeclaredInScope ==
    pc = "generated" /\ backend = "c" =>
      \A p, q \in 1..Len(emitted) :
         ( /\ p < q
           /\ emitted[p].kind = "declare"
           /\ emitted[q].kind = "line"
           /\ emitted[q].name = "assignment"
           /\ emitted[q].var = emitted[p].var )
         => \A r \in p..q : emitted[r].indent >= emitted[p].indent

(***************************************************************************)
(* C18: the line of every Simple node whose rule is present is the         *)
(* template with the placeholders {0}..{n-1} of the template itself        *)
(* replaced, each by its argument, the text of the arguments left as it    *)
(* is (with every variable declared the C backend writes this line only);  *)
(* and the text of the children is left as it is where a block puts it in  *)
(* the place of {body}.                                                    *)
(***************************************************************************)
C18_ArgumentsNotRewritten ==
    pc = "generated" =>
      \A e \in NodesAt(ast, 1) :
         /\ e.node.type = "Simple" /\ HasKey(config.statements, e.node.name) =>
               RenderOne(backend, e.node, config, AssignedIn(ast), e.depth)
                 = Spaces(4 * e.depth)
                   \o AllAtOnce(Get(config.statements, e.node.name).template, e.node.args)
                   \o <<NL>>
         /\ e.node.type = "Block" /\ HasKey(config.blocks, e.node.name) =>
               RenderOne(backend, e.node, config, AssignedIn(ast), e.depth)
                 = Spaces(4 * e.depth)
                   \o Spliced(Get(config.blocks, e.node.name).template,
                              ChildrenText(backend, e.node.inner, config,
                                           AssignedIn(ast), e.depth + 1))
                   \o <<NL>>

====
